---- MODULE Spec2Model ----
(***************************************************************************)
(* Closed01<F>: a floating point number in the closed interval [0, 1].     *)
(*                                                                         *)
(* The scalar F is modelled as a binary floating point format of reduced   *)
(* width with the IEEE 754 behaviour the operations depend on: a sign bit  *)
(* (so +0.0 and -0.0 are distinct values that compare equal), gradual      *)
(* underflow, NaN, and round-to-nearest, ties-to-even after every          *)
(* arithmetic operation.  Magnitudes are counted in units of the smallest  *)
(* subnormal; 1.0 is 2^Scale units and a significand holds Prec bits.      *)
(***************************************************************************)
EXTENDS Integers, FiniteSets

\* Width of the scalar format.
Prec == 3
Scale == 4

RECURSIVE Pow2(_)
Pow2(n) == IF n = 0 THEN 1 ELSE 2 * Pow2(n - 1)

OneMag == Pow2(Scale)

\* Distance between neighbouring representable magnitudes at magnitude q.
RECURSIVE Spacing(_)
Spacing(q) == IF q < Pow2(Prec) THEN 1 ELSE 2 * Spacing(q \div 2)

IsFloatMag(n) == n % Spacing(n) = 0

\* The nonnegative rational num/den rounded to the nearest representable
\* magnitude, ties to the even significand.
RoundMag(num, den) ==
    LET q   == num \div den
        s   == Spacing(q)
        lo  == (q \div s) * s
        rem == num - lo * den
    IN  IF 2 * rem < s * den THEN lo
        ELSE IF 2 * rem > s * den THEN lo + s
        ELSE IF (lo \div s) % 2 = 0 THEN lo ELSE lo + s

Num(n, m) == [nan |-> FALSE, neg |-> n, mag |-> m]
NaN == [nan |-> TRUE, neg |-> FALSE, mag |-> 0]

\* The real number (in units) a scalar stands for.
Val(f) == IF f.neg THEN 0 - f.mag ELSE f.mag
Abs(i) == IF i < 0 THEN 0 - i ELSE i

F_zero == Num(FALSE, 0)
F_one == Num(FALSE, OneMag)

FNeg(a) == IF a.nan THEN NaN ELSE Num(~a.neg, a.mag)

FAdd(a, b) ==
    IF a.nan \/ b.nan THEN NaN
    ELSE LET v == Val(a) + Val(b)
         IN  IF v = 0 THEN Num(a.neg /\ b.neg, 0)
             ELSE Num(v < 0, RoundMag(Abs(v), 1))

FSub(a, b) == FAdd(a, FNeg(b))

FMul(a, b) ==
    IF a.nan \/ b.nan THEN NaN
    ELSE Num(a.neg # b.neg, RoundMag(a.mag * b.mag, OneMag))

FDiv(a, b) ==
    IF a.nan \/ b.nan \/ b.mag = 0 THEN NaN
    ELSE Num(a.neg # b.neg, RoundMag(a.mag * OneMag, b.mag))

FLt(a, b) == ~a.nan /\ ~b.nan /\ Val(a) < Val(b)
FLe(a, b) == ~a.nan /\ ~b.nan /\ Val(a) <= Val(b)
FGt(a, b) == ~a.nan /\ ~b.nan /\ Val(a) > Val(b)
FGe(a, b) == ~a.nan /\ ~b.nan /\ Val(a) >= Val(b)
FEq(a, b) == ~a.nan /\ ~b.nan /\ Val(a) = Val(b)

\* Scalars a caller can hand to new(): every representable value of
\* magnitude up to 2.0, both signs, and NaN.
Mags == {n \in 0 .. 2 * OneMag : IsFloatMag(n)}
Scalars == {Num(s, m) : s \in BOOLEAN, m \in Mags} \cup {NaN}
\* The scalars of the closed interval, -0.0 included.
Unit == {f \in Scalars : ~f.nan /\ Val(f) >= 0 /\ Val(f) <= OneMag}

(***************************************************************************)
(* impl Closed01<F>.  An instance is the scalar it wraps.                  *)
(***************************************************************************)
\* the lower endpoint excluded
new_assert_open(f) == FGt(f, F_zero) /\ FLe(f, F_one)
new_assert(f) == FGe(f, F_zero) /\ FLe(f, F_one)
new(f) == f

new_debug_checked_assert(f) == FGe(f, F_zero) /\ FLe(f, F_one)
new_debug_checked(f) == f

zero == new_debug_checked(F_zero)
center == new_debug_checked(FDiv(F_one, FAdd(F_one, F_one)))
one == new_debug_checked(F_one)

\* a tie goes to the second argument
min_strict(self, other) == IF FLt(self, other) THEN self ELSE other
min(self, other) == IF FLe(self, other) THEN self ELSE other
max(self, other) == IF FGe(self, other) THEN self ELSE other

distance(self, other) ==
    LET dist == FSub(self, other)
    IN  IF FLt(dist, F_zero) THEN new_debug_checked(FNeg(dist))
        ELSE new_debug_checked(dist)

get_assert(self) == FGe(self, F_zero) /\ FLe(self, F_one)
get(self) == self

average(self, other) ==
    new_debug_checked(FDiv(FAdd(get(self), get(other)), FAdd(F_one, F_one)))

\* the sum without the clamp
saturating_add_unclamped(self, other) == new_debug_checked(FAdd(self, other))

saturating_add(self, other) ==
    LET sum == FAdd(self, other)
    IN  IF FGt(sum, F_one) THEN new_debug_checked(F_one)
        ELSE new_debug_checked(sum)

\* the negated difference instead of the clamp
saturating_sub_abs(self, other) ==
    LET sub == FSub(self, other)
    IN  IF FLt(sub, F_zero) THEN new_debug_checked(FNeg(sub))
        ELSE new_debug_checked(sub)

saturating_sub(self, other) ==
    LET sub == FSub(self, other)
    IN  IF FLt(sub, F_zero) THEN new_debug_checked(F_zero)
        ELSE new_debug_checked(sub)

\* self multiplied by itself
mul_squared(self, scalar) == new_debug_checked(FMul(get(self), get(self)))
mul(self, scalar) == new_debug_checked(FMul(get(self), get(scalar)))

\* non-strict comparison
approx_eq_closed(self, other, eps) == FLe(distance(self, other), eps)
approx_eq(self, other, eps) == FLt(distance(self, other), eps)

\* the fraction taken of 1 instead of the remainder 1 - self
scale_up_unscaled(self, other) == new_debug_checked(FAdd(self, other))
scale_up(self, other) ==
    new_debug_checked(FAdd(self, FMul(FSub(F_one, self), other)))

\* the product without the subtraction
scale_down_product(self, other) == new_debug_checked(FMul(self, other))
scale_down(self, other) ==
    new_debug_checked(FSub(self, FMul(self, other)))

\* operands of the subtraction swapped
inv_swapped(self) == new_debug_checked(FSub(self, F_one))
inv(self) == new_debug_checked(FSub(F_one, self))

\* the tie rounds down
round_half_down(self) == IF FLe(self, center) THEN zero ELSE one
round(self) == IF FLt(self, center) THEN zero ELSE one

(***************************************************************************)
(* A caller holding two instances x and y.  Every operation takes x as     *)
(* self and y as other and keeps its result in x or in y.  a and b record  *)
(* the operands of the last call, raw the scalar handed to new, eps the    *)
(* third operand of approx_eq, res and flag what the call returned.        *)
(* debug is the build: debug assertions are compiled in or out.            *)
(***************************************************************************)
VARIABLES x, y, debug, panic, op, a, b, raw, eps, res, flag

vars == <<x, y, debug, panic, op, a, b, raw, eps, res, flag>>

Init ==
    /\ x = zero
    /\ y = one
    /\ debug \in BOOLEAN
    /\ panic = "none"
    /\ op = "init"
    /\ a = zero
    /\ b = one
    /\ raw = F_zero
    /\ eps = zero
    /\ res = center
    /\ flag = FALSE

Keep(dst, r) ==
    /\ x' = IF dst = "x" THEN r ELSE x
    /\ y' = IF dst = "y" THEN r ELSE y

Call(name) ==
    /\ panic = "none"
    /\ op' = name
    /\ a' = x
    /\ b' = y
    /\ UNCHANGED debug

\* A call whose debug assertions read `checks`, returning r.
Derive(name, checks, r) ==
    /\ Call(name)
    /\ raw' = F_zero
    /\ eps' = zero
    /\ flag' = FALSE
    /\ res' = r
    /\ IF debug /\ ~checks
       THEN panic' = "debug_assert" /\ UNCHANGED <<x, y>>
       ELSE panic' = "none" /\ \E dst \in {"x", "y"} : Keep(dst, r)

New ==
    \E f \in Scalars :
        /\ Call("new")
        /\ raw' = f
        /\ eps' = zero
        /\ flag' = FALSE
        /\ IF new_assert(f)
           THEN /\ panic' = "none"
                /\ res' = new(f)
                /\ \E dst \in {"x", "y"} : Keep(dst, new(f))
           ELSE /\ panic' = "assert"
                /\ res' = res
                /\ UNCHANGED <<x, y>>

Zero == Derive("zero", new_debug_checked_assert(F_zero), zero)
Center == Derive("center", new_debug_checked_assert(center), center)
One == Derive("one", new_debug_checked_assert(F_one), one)

Min == Derive("min", TRUE, min(x, y))
Max == Derive("max", TRUE, max(x, y))

Distance == Derive("distance", new_debug_checked_assert(distance(x, y)), distance(x, y))

Get ==
    /\ Call("get")
    /\ raw' = F_zero
    /\ eps' = zero
    /\ flag' = FALSE
    /\ res' = get(x)
    /\ panic' = IF debug /\ ~get_assert(x) THEN "debug_assert" ELSE "none"
    /\ UNCHANGED <<x, y>>

Average ==
    Derive("average",
           get_assert(x) /\ get_assert(y) /\ new_debug_checked_assert(average(x, y)),
           average(x, y))

SaturatingAdd ==
    Derive("saturating_add", new_debug_checked_assert(saturating_add(x, y)),
           saturating_add(x, y))

SaturatingSub ==
    Derive("saturating_sub", new_debug_checked_assert(saturating_sub(x, y)),
           saturating_sub(x, y))

Mul ==
    Derive("mul", get_assert(x) /\ get_assert(y) /\ new_debug_checked_assert(mul(x, y)),
           mul(x, y))

ApproxEq ==
    \E e \in Unit :
        /\ Call("approx_eq")
        /\ raw' = F_zero
        /\ eps' = e
        /\ res' = distance(x, y)
        /\ flag' = approx_eq(x, y, e)
        /\ panic' = IF debug /\ ~new_debug_checked_assert(distance(x, y))
                    THEN "debug_assert" ELSE "none"
        /\ UNCHANGED <<x, y>>

ScaleUp == Derive("scale_up", new_debug_checked_assert(scale_up(x, y)), scale_up(x, y))
ScaleDown == Derive("scale_down", new_debug_checked_assert(scale_down(x, y)), scale_down(x, y))
Inv == Derive("inv", new_debug_checked_assert(inv(x)), inv(x))
Round ==
    Derive("round",
           new_debug_checked_assert(center) /\ new_debug_checked_assert(round(x)),
           round(x))

Next ==
    \/ New
    \/ Zero
    \/ Center
    \/ One
    \/ Min
    \/ Max
    \/ Distance
    \/ Get
    \/ Average
    \/ SaturatingAdd
    \/ SaturatingSub
    \/ Mul
    \/ ApproxEq
    \/ ScaleUp
    \/ ScaleDown
    \/ Inv
    \/ Round

Spec == Init /\ [][Next]_vars

(***************************************************************************)
(* Properties.  Exact (real) arithmetic on Val is the reference the        *)
(* rounded results are compared against.                                   *)
(***************************************************************************)
InUnit(f) == ~f.nan /\ Val(f) >= 0 /\ Val(f) <= OneMag

\* Machine epsilon of the scalar: the spacing of the values at 1.0.
Epsilon == Spacing(OneMag)

\* C1: every instance reachable from new/zero/one/center by the operations
\* holds a value in [0, 1], and no debug range check ever fails.
RangeClosure ==
    /\ panic # "debug_assert"
    /\ InUnit(x)
    /\ InUnit(y)
    /\ (op \notin {"init", "new"}) => InUnit(res)

RangeClosureWitness ==
    /\ op = "scale_up"
    /\ panic = "none"
    /\ Val(a) > 0 /\ Val(a) < OneMag
    /\ Val(b) > 0 /\ Val(b) < OneMag
    /\ res = one
    /\ x = one

\* C2: new(value) fails without producing an instance when value < 0 or
\* value > 1, and returns the value unchanged when 0 <= value <= 1.
NewContract ==
    op = "new" =>
        /\ (~raw.nan /\ (Val(raw) < 0 \/ Val(raw) > OneMag))
               => (panic = "assert" /\ x = a /\ y = b)
        /\ (~raw.nan /\ Val(raw) >= 0 /\ Val(raw) <= OneMag)
               => (panic = "none" /\ res = raw /\ get(res) = raw
                   /\ (x = raw \/ y = raw))

NewContractWitness ==
    /\ op = "new"
    /\ panic = "assert"
    /\ Val(raw) = OneMag + Epsilon

\* C3: saturating_add(a, b) is a + b when a + b <= 1 and exactly 1 when
\* a + b > 1; it never clamps at the lower bound.
SaturatingAddIsMin ==
    op = "saturating_add" =>
        /\ Val(a) + Val(b) > OneMag => res = F_one
        /\ Val(a) + Val(b) <= OneMag
               => (res = FAdd(a, b) /\ Val(res) = RoundMag(Val(a) + Val(b), 1))
        /\ Val(res) >= Val(a)
        /\ Val(res) >= Val(b)

SaturatingAddWitness ==
    /\ op = "saturating_add"
    /\ Val(a) > 0
    /\ Val(b) > 0
    /\ Val(a) + Val(b) = OneMag
    /\ res = one

\* C4: saturating_sub(a, b) is a - b when a >= b and exactly 0 when a < b;
\* it is never negative and never clamps at the upper bound.
SaturatingSubIsMax ==
    op = "saturating_sub" =>
        /\ Val(a) < Val(b) => res = F_zero
        /\ Val(a) >= Val(b)
               => (res = FSub(a, b) /\ Val(res) = RoundMag(Val(a) - Val(b), 1))
        /\ Val(res) >= 0
        /\ Val(res) <= Val(a)

SaturatingSubWitness ==
    /\ op = "saturating_sub"
    /\ Val(a) > 0
    /\ Val(a) < Val(b)
    /\ res = zero

\* C5: min and max return the first argument unless the second strictly
\* beats it; the result is one of the arguments, min <= max, and the order
\* of distinct arguments does not matter.
MinMaxFirstWins ==
    /\ op = "min" => res = (IF Val(b) < Val(a) THEN b ELSE a)
    /\ op = "max" => res = (IF Val(b) > Val(a) THEN b ELSE a)
    /\ op \in {"min", "max"} =>
        /\ res \in {a, b}
        /\ FLe(min(a, b), max(a, b))
        /\ Val(a) # Val(b) => (min(a, b) = min(b, a) /\ max(a, b) = max(b, a))
        /\ Val(a) = Val(b) => (min(a, b) = a /\ max(a, b) = a)

\* a tie between +0.0 and -0.0: which argument came back is observable
MinMaxTieWitness ==
    /\ op = "min"
    /\ Val(a) = Val(b)
    /\ a # b
    /\ res = a

\* C6: round(a) is zero() when a < 0.5 and one() otherwise, the tie 0.5
\* rounds up, and round is idempotent.
RoundHalfUp ==
    op = "round" =>
        /\ 2 * Val(a) < OneMag => res = zero
        /\ 2 * Val(a) >= OneMag => res = one
        /\ res \in {F_zero, F_one}
        /\ round(res) = res

RoundTieWitness ==
    /\ op = "round"
    /\ 2 * Val(a) = OneMag
    /\ res = one

\* C7 as stated: inv(a) equals 1 - a and inv(inv(a)) == a for every a.
InvInvolution ==
    op = "inv" =>
        /\ FEq(res, FSub(F_one, a))
        /\ FEq(inv(res), a)

\* C7 amended: inv(a) is 1 - a rounded to the scalar; inv(inv(a)) == a
\* exactly when 1 - a is representable, which covers every a >= 0.5 and
\* the constants zero(), one() and center().
InvInvolutionWhenExact ==
    op = "inv" =>
        /\ Val(res) = RoundMag(OneMag - Val(a), 1)
        /\ FEq(inv(res), a) <=> (Val(a) + Val(res) = OneMag)
        /\ 2 * Val(a) >= OneMag => FEq(inv(res), a)
        /\ FEq(a, zero) => FEq(res, one)
        /\ FEq(a, one) => FEq(res, zero)
        /\ FEq(a, center) => FEq(res, center)

InvRoundedWitness ==
    /\ op = "inv"
    /\ Val(a) + Val(res) # OneMag
    /\ ~FEq(inv(res), a)
    /\ x = res

\* C8: scale_up(a, zero()) == a, scale_down(a, zero()) == a,
\* scale_up(a, one()) == one() and scale_down(a, one()) == zero().
ScaleIdentities ==
    /\ (op = "scale_up" /\ FEq(b, zero)) => FEq(res, a)
    /\ (op = "scale_down" /\ FEq(b, zero)) => FEq(res, a)
    /\ (op = "scale_up" /\ FEq(b, one)) => FEq(res, one)
    /\ (op = "scale_down" /\ FEq(b, one)) => FEq(res, zero)

\* scale_up(a, one()) where 1 - a is not representable
ScaleUpToOneWitness ==
    /\ op = "scale_up"
    /\ b = one
    /\ Val(a) + Val(FSub(F_one, a)) # OneMag
    /\ res = one

\* C9: approx_eq(a, b, eps) is true iff distance(a, b) < eps, strictly;
\* distance is |a - b| and symmetric, so approx_eq is symmetric and false
\* at distance exactly eps.
ApproxEqStrict ==
    op = "approx_eq" =>
        /\ Val(res) = RoundMag(Abs(Val(a) - Val(b)), 1)
        /\ FEq(res, distance(b, a))
        /\ flag <=> (Val(res) < Val(eps))
        /\ FEq(res, eps) => ~flag
        /\ flag = approx_eq(b, a, eps)
        /\ ~approx_eq(a, a, zero)

ApproxEqBoundaryWitness ==
    /\ op = "approx_eq"
    /\ Val(a) # Val(b)
    /\ Val(res) = Val(eps)
    /\ flag = FALSE

\* C10 as stated: scale_down(a, b) == mul(a, inv(b)) and
\* scale_up(a, b) == inv(scale_down(inv(a), b)), with
\* a <= scale_up(a, b) <= 1 and 0 <= scale_down(a, b) <= a.
ScaleDuality ==
    /\ op = "scale_down" =>
        /\ FEq(res, mul(a, inv(b)))
        /\ Val(res) >= 0 /\ Val(res) <= Val(a)
    /\ op = "scale_up" =>
        /\ FEq(res, inv(scale_down(inv(a), b)))
        /\ FEq(inv(res), mul(inv(a), inv(b)))
        /\ Val(res) >= Val(a) /\ Val(res) <= OneMag

\* C10 amended: the two dualities hold up to the rounding of the scalar:
\* scale_down(a, b) and mul(a, inv(b)) differ by at most one machine
\* epsilon, scale_up(a, b) and inv(scale_down(inv(a), b)) by at most two;
\* a <= scale_up(a, b) <= 1 and 0 <= scale_down(a, b) <= a hold exactly.
ScaleDualityUpToRounding ==
    /\ op = "scale_down" =>
        /\ Abs(Val(res) - Val(mul(a, inv(b)))) <= Epsilon
        /\ Val(res) >= 0 /\ Val(res) <= Val(a)
    /\ op = "scale_up" =>
        /\ Abs(Val(res) - Val(inv(scale_down(inv(a), b)))) <= 2 * Epsilon
        /\ Val(res) >= Val(a) /\ Val(res) <= OneMag

ScaleDualityRoundedWitness ==
    /\ op = "scale_down"
    /\ ~FEq(res, mul(a, inv(b)))
    /\ x = res

====
